---- MODULE Spec2Model ----
(***************************************************************************)
(* Model of the onnxruntime Rust wrapper: ownership of the native           *)
(* environment handle (environment.rs) and of native output values          *)
(* (tensor/ort_output_tensor.rs).                                           *)
(*                                                                          *)
(* The native engine is an opaque C ABI.  A native pointer is modelled as   *)
(* the identity of the native object it designates (0 is the null pointer), *)
(* and every native entry point answers with a nondeterministic status.     *)
(***************************************************************************)
EXTENDS Integers, Sequences, FiniteSets, TLC

\* ---------------------------------------------------------------- bounds
NumThreads == 2      \* threads calling the environment API
MaxBuilds  == 2      \* native creation calls made in one behaviour
MaxStrong  == 2      \* largest Arc strong count explored
MaxEnvPtr  == 2      \* distinct native environments the engine may hand out

\* ------------------------------------------------------------- constants
NullPtr  == 0        \* std::ptr::null_mut()
StatusOk == 0        \* a null OrtStatus* is success
StatusErr == 1       \* a non-null OrtStatus* is a failure
NUL == 0             \* the NUL byte

Threads == 1..NumThreads
EnvPtrs == 1..MaxEnvPtr

\* "default" as bytes, the name Environment::builder() starts from
DefaultName == <<100, 101, 102, 97, 117, 108, 116>>
\* names a caller may pass to with_name: "A", and "A\0B" with an interior NUL
Names == {DefaultName, <<65>>, <<65, 0, 66>>}
LogLevels == {"Warning", "Verbose"}

VARIABLES
    pc,          \* pc[t]: position of thread t in builder()/build()
    builder,     \* builder[t]: the EnvBuilder thread t holds
    local,       \* local[t]: arguments and locals of Environment::new
    configured,  \* configured[t]: the last value given to each builder method
    result,      \* result[t]: what the build thread t called last returned
    arcs,        \* the _Environment allocations, in order of creation
    created,     \* created[p]: successful native creations that returned p
    released,    \* released[p]: native ReleaseEnv calls made on p
    createCalls  \* native CreateEnvWithCustomLogger calls made so far

envVars == <<pc, builder, local, configured, result, arcs, created, released,
            createCalls>>

\* ---------------------------------------------------------------- bounds
MaxVals  == 3        \* native output values the session hands out
MaxDim   == 2        \* largest dimension size in a shape
MaxRank  == 2        \* longest shape
MaxValidations == 2  \* validations of one native value

ValPtrs == 1..MaxVals
Shapes == UNION {[1..n -> 0..MaxDim] : n \in 0..MaxRank}

\* state of the output tensor API: one output tensor is handled at a time
VARIABLES
    obj,         \* the extractor / OrtOutputTensor / WithOutputTensor.tensor in hand
    item,        \* the view stored in the WithOutputTensor
    call,        \* locals of the native calls made for the tensor in hand
    extracted,   \* what extract returned
    converted,   \* what try_from returned
    valReleased, \* valReleased[v]: native ReleaseValue calls made on v
    views,       \* native buffers aliased by views copied out through Deref
    lastRead,    \* outcome of the last read through a copied view
    nextVal,     \* next native value the session will hand out
    prev         \* the latest validation that left its native handle unowned

tensorVars == <<obj, item, call, extracted, converted, valReleased, views,
                lastRead, nextVal, prev>>

\* ------------------------------------------------------------ pure parts

\* CString::new(name): fails on an interior NUL byte, else appends the terminator
CStringNew(name) ==
    IF \E i \in 1..Len(name) : name[i] = NUL
    THEN [ok |-> FALSE, bytes |-> <<>>]
    ELSE [ok |-> TRUE, bytes |-> Append(name, NUL)]

CStrToString_Mut(c) == c

\* CStr::to_str().to_string(): the bytes before the terminator
CStrToString(c) == SubSeq(c, 1, Len(c) - 1)

\* status_to_result(status): Ok for a null status, Err otherwise
StatusToResult(status) == status = StatusOk

\* status_to_result(status).map_err(OrtError::Environment) in Environment::new
EnvironmentNewMapErr_Mut(status) ==
    IF StatusToResult(status) THEN "Ok" ELSE "IsTensor"

EnvironmentNewMapErr(status) ==
    IF StatusToResult(status) THEN "Ok" ELSE "Environment"

NoResult == "None"
NoLocal == [name |-> <<>>, log_level |-> "Warning", cname |-> <<>>,
            status |-> StatusOk, env_ptr |-> NullPtr]
NoBuilder == [name |-> <<>>, log_level |-> "Warning"]
\* no configuration method was called on the builder yet
Unset == <<-1>>
NotConfigured == [name |-> Unset, log_level |-> "Unset"]

\* self.name = name.into() in with_name
BuilderWithName_Mut(b, name) ==
    IF b.name = DefaultName THEN [b EXCEPT !.name = name] ELSE b

BuilderWithName(b, name) ==
    [b EXCEPT !.name = name]

\* self.log_level = log_level in with_log_level
BuilderWithLogLevel(b, level) ==
    [b EXCEPT !.log_level = level]

ArcDropsInner_Mut(a) == TRUE

\* Arc::drop runs Drop for _Environment when the last handle goes
ArcDropsInner(a) == a.strong = 1

\* an _Environment allocation after its last handle was dropped
FreedArc == [name |-> <<NUL>>, env_ptr |-> NullPtr, strong |-> 0]

\* Environment handles alive on allocation i (Arc strong count)
Live(i) == arcs[i].strong > 0
LiveArcs == {i \in 1..Len(arcs) : Live(i)}

\* Environment::name() of a handle on allocation i
EnvName(i) == CStrToString(arcs[i].name)

\* pointers the engine may answer a creation with: the next unused native
\* object, or one it created earlier and still counts references for
NativeCreateChoices ==
    {p \in EnvPtrs : \/ created[p] > released[p]
                     \/ /\ created[p] = 0
                        /\ \A q \in EnvPtrs : q < p => created[q] > 0}

\* --------------------------------------------------------------- actions

\* Environment::builder()
Builder(t) ==
    /\ pc[t] = "idle"
    /\ createCalls + Cardinality({u \in Threads : pc[u] = "builder"}) < MaxBuilds
    /\ pc' = [pc EXCEPT ![t] = "builder"]
    /\ builder' = [builder EXCEPT ![t] = [name |-> DefaultName, log_level |-> "Warning"]]
    /\ configured' = [configured EXCEPT ![t] = NotConfigured]
    /\ result' = [result EXCEPT ![t] = NoResult]
    /\ UNCHANGED <<local, arcs, created, released, createCalls>>
    /\ UNCHANGED tensorVars

\* EnvBuilder::with_name(name)
WithName(t, name) ==
    /\ pc[t] = "builder"
    /\ builder' = [builder EXCEPT ![t] = BuilderWithName(@, name)]
    /\ configured' = [configured EXCEPT ![t].name = name]
    /\ UNCHANGED <<pc, local, result, arcs, created, released, createCalls>>
    /\ UNCHANGED tensorVars

\* EnvBuilder::with_log_level(log_level)
WithLogLevel(t, level) ==
    /\ pc[t] = "builder"
    /\ builder' = [builder EXCEPT ![t] = BuilderWithLogLevel(@, level)]
    /\ configured' = [configured EXCEPT ![t].log_level = level]
    /\ UNCHANGED <<pc, local, result, arcs, created, released, createCalls>>
    /\ UNCHANGED tensorVars

\* EnvBuilder::build -> Environment::new, up to the return of the native call:
\* CString::new(name).unwrap() panics on an interior NUL before any native call
BuildPanic(t) ==
    /\ pc[t] = "builder"
    /\ ~CStringNew(builder[t].name).ok
    /\ pc' = [pc EXCEPT ![t] = "idle"]
    /\ result' = [result EXCEPT ![t] = "Panic"]
    /\ builder' = [builder EXCEPT ![t] = NoBuilder]
    /\ configured' = [configured EXCEPT ![t] = NotConfigured]
    /\ UNCHANGED <<local, arcs, created, released, createCalls>>
    /\ UNCHANGED tensorVars

\* ... otherwise CreateEnvWithCustomLogger is called and answers
BuildCallNative(t, status, p) ==
    /\ pc[t] = "builder"
    /\ CStringNew(builder[t].name).ok
    /\ createCalls < MaxBuilds
    /\ \/ status = StatusOk /\ p \in NativeCreateChoices
       \/ status = StatusErr /\ p = NullPtr
    /\ pc' = [pc EXCEPT ![t] = "native"]
    /\ local' = [local EXCEPT ![t] = [name |-> builder[t].name,
                                      log_level |-> builder[t].log_level,
                                      cname |-> CStringNew(builder[t].name).bytes,
                                      status |-> status, env_ptr |-> p]]
    /\ builder' = [builder EXCEPT ![t] = NoBuilder]
    /\ createCalls' = createCalls + 1
    /\ created' = IF status = StatusOk THEN [created EXCEPT ![p] = @ + 1] ELSE created
    /\ configured' = [configured EXCEPT ![t] = NotConfigured]
    /\ UNCHANGED <<result, arcs, released>>
    /\ UNCHANGED tensorVars

\* Environment::new after the native call: the status check, then Arc::new
BuildReturn(t) ==
    /\ pc[t] = "native"
    /\ pc' = [pc EXCEPT ![t] = "idle"]
    /\ local' = [local EXCEPT ![t] = NoLocal]
    /\ IF EnvironmentNewMapErr(local[t].status) = "Ok"
       THEN /\ arcs' = Append(arcs, [name |-> local[t].cname,
                                     env_ptr |-> local[t].env_ptr,
                                     strong |-> 1])
            /\ result' = [result EXCEPT ![t] = "Ok"]
       ELSE /\ arcs' = arcs
            /\ result' = [result EXCEPT ![t] = EnvironmentNewMapErr(local[t].status)]
    /\ UNCHANGED <<builder, configured, created, released, createCalls>>
    /\ UNCHANGED tensorVars

\* Environment::clone (derived): one more handle on the same allocation
CloneEnv(i) ==
    /\ i \in LiveArcs
    /\ arcs[i].strong < MaxStrong
    /\ arcs' = [arcs EXCEPT ![i].strong = @ + 1]
    /\ UNCHANGED <<pc, builder, local, configured, result, created, released, createCalls>>
    /\ UNCHANGED tensorVars

\* drop of an Environment handle; the last one runs Drop for _Environment,
\* which calls ReleaseEnv(env_ptr), and the allocation is freed
DropEnv(i) ==
    /\ i \in LiveArcs
    /\ arcs' = [arcs EXCEPT ![i] = IF ArcDropsInner(arcs[i]) THEN FreedArc
                                  ELSE [@ EXCEPT !.strong = @ - 1]]
    /\ released' = IF ArcDropsInner(arcs[i])
                   THEN [released EXCEPT ![arcs[i].env_ptr] = @ + 1]
                   ELSE released
    /\ UNCHANGED <<pc, builder, local, configured, result, created, createCalls>>
    /\ UNCHANGED tensorVars

InitEnv ==
    /\ pc = [t \in Threads |-> "idle"]
    /\ builder = [t \in Threads |-> NoBuilder]
    /\ local = [t \in Threads |-> NoLocal]
    /\ configured = [t \in Threads |-> NotConfigured]
    /\ result = [t \in Threads |-> NoResult]
    /\ arcs = <<>>
    /\ created = [p \in EnvPtrs |-> 0]
    /\ released = [p \in EnvPtrs |-> 0]
    /\ createCalls = 0

NextEnv ==
    \/ \E t \in Threads : Builder(t)
    \/ \E t \in Threads, name \in Names : WithName(t, name)
    \/ \E t \in Threads, level \in LogLevels : WithLogLevel(t, level)
    \/ \E t \in Threads : BuildPanic(t)
    \/ \E t \in Threads, status \in {StatusOk, StatusErr}, p \in EnvPtrs \cup {NullPtr} :
          BuildCallNative(t, status, p)
    \/ \E t \in Threads : BuildReturn(t)
    \/ \E i \in 1..Len(arcs) : CloneEnv(i)
    \/ \E i \in 1..Len(arcs) : DropEnv(i)

\* ======================================================================
\* Output tensors (tensor/ort_output_tensor.rs)
\* ======================================================================

NoObj == [stage |-> "none", tensor_ptr |-> NullPtr, shape |-> <<>>]
NoItem == [kind |-> "none", data |-> NullPtr, len |-> 0, shape |-> <<>>]
NoCall == [status |-> StatusOk, is_tensor |-> 0, output_array_ptr |-> NullPtr]
NoPrev == [ptr |-> NullPtr, shape |-> <<>>, status |-> StatusOk, is_tensor |-> 0,
           result |-> "None", n |-> 0]

\* the element at offset i of the native buffer GetTensorMutableData yields
\* for value p: every cell of every buffer holds a different number
NativeBuffer(p, i) == 100 * p + i

\* element i read through a view: *(data + i)
ViewElem(it, i) == NativeBuffer(it.data, i)

RECURSIVE ShapeFold_Mut(_, _)
ShapeFold_Mut(acc, shape) ==
    IF shape = <<>> THEN acc
    ELSE ShapeFold_Mut(acc + Head(shape), Tail(shape))

\* value.shape.iter().fold(1, |acc, el| acc * el)
RECURSIVE ShapeFold(_, _)
ShapeFold(acc, shape) ==
    IF shape = <<>> THEN acc
    ELSE ShapeFold(acc * Head(shape), Tail(shape))

\* status_to_result(status).map_err(OrtError::IsTensor) in extract
ExtractMapErr_Mut(status) ==
    IF StatusToResult(status) THEN "Ok" ELSE "IsTensorCheck"

ExtractMapErr(status) ==
    IF StatusToResult(status) THEN "Ok" ELSE "IsTensor"

IsTensorCheck_Mut(is_tensor) ==
    IF is_tensor # 0 THEN "Ok" ELSE "IsTensorCheck"

\* (is_tensor == 1).then_some(()).ok_or(OrtError::IsTensorCheck)
IsTensorCheck(is_tensor) ==
    IF is_tensor = 1 THEN "Ok" ELSE "IsTensorCheck"

\* status_to_result(status).map_err(OrtError::IsTensor) in both try_from
TryFromMapErr(status) ==
    IF StatusToResult(status) THEN "Ok" ELSE "IsTensor"

ReleaseValue_Mut(p) ==
    valReleased' = valReleased

\* the native ReleaseValue(p)
ReleaseValue(p) ==
    valReleased' = IF p \in ValPtrs THEN [valReleased EXCEPT ![p] = @ + 1]
                   ELSE valReleased

\* OrtOwnedTensorExtractor::new(shape), for the next output of the session
ExtractorNew(shape) ==
    /\ obj.stage = "none"
    /\ nextVal <= MaxVals
    /\ obj' = [stage |-> "extractor", tensor_ptr |-> NullPtr, shape |-> shape]
    /\ item' = NoItem
    /\ call' = NoCall
    /\ extracted' = "None"
    /\ converted' = "None"
    /\ UNCHANGED <<valReleased, views, lastRead, nextVal>>
    /\ prev' = NoPrev
    /\ UNCHANGED envVars

\* the session's run stores the native output value in the extractor
SessionRun ==
    /\ obj.stage = "extractor"
    /\ obj.tensor_ptr = NullPtr
    /\ nextVal <= MaxVals
    /\ obj' = [obj EXCEPT !.tensor_ptr = nextVal]
    /\ nextVal' = nextVal + 1
    /\ UNCHANGED <<item, call, extracted, converted, valReleased, views, lastRead>>
    /\ UNCHANGED <<envVars, prev>>

\* extract on a null tensor_ptr: assert_ne! panics before any native call
ExtractNull ==
    /\ obj.stage = "extractor"
    /\ obj.tensor_ptr = NullPtr
    /\ extracted' = "Panic"
    /\ obj' = NoObj
    /\ UNCHANGED <<item, call, converted, valReleased, views, lastRead, nextVal>>
    /\ UNCHANGED <<envVars, prev>>

\* the OrtOutputTensor extract returns: tensor_ptr and shape are moved
ExtractedTensor_Mut(o) ==
    [stage |-> "output", tensor_ptr |-> o.tensor_ptr, shape |-> <<>>]

ExtractedTensor(o) ==
    [stage |-> "output", tensor_ptr |-> o.tensor_ptr, shape |-> o.shape]

\* extract: the native IsTensor answers (status, is_tensor), a query of the
\* value that answers the same for the same value; the extractor is consumed,
\* and on the error paths nothing owns the native value any more
Extract(status, is_tensor) ==
    /\ obj.stage = "extractor"
    /\ obj.tensor_ptr # NullPtr
    /\ status = StatusErr => is_tensor = 0
    /\ obj.tensor_ptr = prev.ptr => status = prev.status /\ is_tensor = prev.is_tensor
    /\ call' = [status |-> status, is_tensor |-> is_tensor,
                output_array_ptr |-> NullPtr]
    /\ LET r == IF ExtractMapErr(status) # "Ok" THEN ExtractMapErr(status)
                ELSE IsTensorCheck(is_tensor)
       IN /\ extracted' = r
          /\ obj' = IF r = "Ok" THEN ExtractedTensor(obj) ELSE NoObj
          /\ prev' = IF r = "Ok" THEN NoPrev
                     ELSE [ptr |-> obj.tensor_ptr, shape |-> obj.shape,
                           status |-> status, is_tensor |-> is_tensor, result |-> r,
                           n |-> IF obj.tensor_ptr = prev.ptr THEN prev.n + 1 ELSE 1]
    /\ UNCHANGED <<item, converted, valReleased, views, lastRead, nextVal>>
    /\ UNCHANGED envVars

\* the native handle of the latest validation, which failed and left the
\* value unowned and unreleased, is given to a new extractor with the same shape
Revalidate ==
    /\ obj.stage = "none"
    /\ prev.ptr # NullPtr
    /\ prev.result # "Ok"
    /\ prev.n < MaxValidations
    /\ obj' = [stage |-> "extractor", tensor_ptr |-> prev.ptr, shape |-> prev.shape]
    /\ item' = NoItem
    /\ call' = NoCall
    /\ extracted' = "None"
    /\ converted' = "None"
    /\ UNCHANGED <<valReleased, views, lastRead, nextVal, prev>>
    /\ UNCHANGED envVars

\* Drop for OrtOutputTensor: ReleaseValue(tensor_ptr), then tensor_ptr = null
DropOutput ==
    /\ obj.stage = "output"
    /\ ReleaseValue(obj.tensor_ptr)
    /\ obj' = NoObj
    /\ UNCHANGED <<item, call, extracted, converted, views, lastRead, nextVal>>
    /\ UNCHANGED <<envVars, prev>>

\* TryFrom<OrtOutputTensor>::try_from for ArrayView ("array") and &[T] ("slice"):
\* the native GetTensorMutableData answers (status, dptr)
TryFrom(kind, status, dptr) ==
    /\ obj.stage = "output"
    /\ \/ status = StatusErr /\ dptr = NullPtr
       \/ status = StatusOk /\ dptr \in {NullPtr, obj.tensor_ptr}
    /\ call' = [call EXCEPT !.status = status, !.output_array_ptr = dptr]
    /\ IF TryFromMapErr(status) # "Ok"
       THEN \* Err: value is dropped on return
            /\ converted' = TryFromMapErr(status)
            /\ ReleaseValue(obj.tensor_ptr)
            /\ obj' = NoObj
            /\ item' = item
       ELSE IF dptr = NullPtr
       THEN \* assert_ne! panics; unwinding drops value
            /\ converted' = "Panic"
            /\ ReleaseValue(obj.tensor_ptr)
            /\ obj' = NoObj
            /\ item' = item
       ELSE /\ converted' = "Ok"
            /\ valReleased' = valReleased
            /\ obj' = [obj EXCEPT !.stage = "with"]
            /\ item' = [kind |-> kind, data |-> dptr,
                        len |-> ShapeFold(1, obj.shape),
                        shape |-> IF kind = "array" THEN obj.shape
                                  ELSE <<ShapeFold(1, obj.shape)>>]
    /\ UNCHANGED <<extracted, views, lastRead, nextVal>>
    /\ UNCHANGED <<envVars, prev>>

\* Deref::deref, then a copy of the view (&[T] and ArrayView are Copy, and
\* their lifetime parameter is not tied to the WithOutputTensor)
DerefCopy ==
    /\ obj.stage = "with"
    /\ views' = views \cup {item.data}
    /\ UNCHANGED <<obj, item, call, extracted, converted, valReleased, lastRead, nextVal>>
    /\ UNCHANGED <<envVars, prev>>

\* drop of a WithOutputTensor: drops its OrtOutputTensor and its item
DropWith ==
    /\ obj.stage = "with"
    /\ ReleaseValue(obj.tensor_ptr)
    /\ obj' = NoObj
    /\ item' = NoItem
    /\ UNCHANGED <<call, extracted, converted, views, lastRead, nextVal>>
    /\ UNCHANGED <<envVars, prev>>

\* a read through a copied view: from the native buffer while the value is
\* alive, from freed memory once it was released
ReadView(v) ==
    /\ v \in views
    /\ lastRead' = IF valReleased[v] = 0 THEN "valid" ELSE "dangling"
    /\ UNCHANGED <<obj, item, call, extracted, converted, valReleased, views, nextVal>>
    /\ UNCHANGED <<envVars, prev>>

\* a copied view goes out of scope
ForgetView(v) ==
    /\ v \in views
    /\ views' = views \ {v}
    /\ UNCHANGED <<obj, item, call, extracted, converted, valReleased, lastRead, nextVal>>
    /\ UNCHANGED <<envVars, prev>>

InitTensor ==
    /\ obj = NoObj
    /\ item = NoItem
    /\ call = NoCall
    /\ extracted = "None"
    /\ converted = "None"
    /\ valReleased = [v \in ValPtrs |-> 0]
    /\ views = {}
    /\ lastRead = "none"
    /\ nextVal = 1
    /\ prev = NoPrev

NextTensor ==
    \/ \E shape \in Shapes : ExtractorNew(shape)
    \/ SessionRun
    \/ ExtractNull
    \/ \E status \in {StatusOk, StatusErr}, is_tensor \in 0..2 :
          Extract(status, is_tensor)
    \/ Revalidate
    \/ DropOutput
    \/ \E kind \in {"array", "slice"}, status \in {StatusOk, StatusErr},
          dptr \in ValPtrs \cup {NullPtr} : TryFrom(kind, status, dptr)
    \/ DerefCopy
    \/ DropWith
    \/ \E v \in views : ReadView(v)
    \/ \E v \in views : ForgetView(v)

\* ======================================================================

vars == <<envVars, tensorVars>>

Init == InitEnv /\ InitTensor

\* the environment API, used from NumThreads threads
Spec == Init /\ [][NextEnv]_vars

\* the output tensor API
SpecTensor == Init /\ [][NextTensor]_vars

\* ======================================================================
\* Claims
\* ======================================================================

\* C1: at any time all live Environment handles hold one identical native
\* env_ptr, whatever sequence or interleaving of successful builds made them.
C1_SamePointer ==
    \A i \in LiveArcs, j \in LiveArcs : arcs[i].env_ptr = arcs[j].env_ptr

\* C2: while an Environment exists, no step makes a native
\* CreateEnvWithCustomLogger call: a later build returns the existing handle.
C2_OneCreation ==
    [][LiveArcs # {} => createCalls' = createCalls]_vars

\* C3: name precedence is first-writer-wins: while the Environment of the
\* first successful build is alive, every Environment reports its name.
C3_FirstNameWins ==
    \A i \in LiveArcs : Live(1) => EnvName(i) = EnvName(1)

\* C4: ReleaseEnv is never called twice on the same native environment, and
\* once every handle referencing a created environment is dropped it has been
\* called exactly once on it.
C4_SingleRelease ==
    \A p \in EnvPtrs :
        /\ released[p] <= 1
        /\ ( /\ created[p] > 0
             /\ \A i \in LiveArcs : arcs[i].env_ptr # p
             /\ \A t \in Threads : local[t].env_ptr # p )
           => released[p] = 1

\* C5: no live Environment handle holds an env_ptr on which ReleaseEnv has
\* already been called.
C5_NoLiveReleased ==
    \A i \in LiveArcs : released[arcs[i].env_ptr] = 0

\* C6: a readable view (the item inside a WithOutputTensor, or a copy of it
\* obtained through Deref) never aliases a native value that was released.
C6_NoDanglingView ==
    /\ \A v \in views : valReleased[v] = 0
    /\ obj.stage = "with" => valReleased[item.data] = 0

\* C7: a build whose native creation call reported a non-success status
\* returns OrtError::Environment, makes no Environment and calls no ReleaseEnv.
C7_CreationError ==
    [][\A t \in Threads :
          (pc[t] = "native" /\ pc'[t] = "idle" /\ local[t].status # StatusOk)
          => /\ result'[t] = "Environment"
             /\ arcs' = arcs
             /\ released' = released]_vars

\* a build has returned the environment-creation error
C7_Witness ==
    \E t \in Threads : result[t] = "Environment" /\ createCalls > 0

\* C8: extract on a non-null handle returns OrtError::IsTensor when the
\* native query errors, OrtError::IsTensorCheck when it answers not-a-tensor,
\* and otherwise an OrtOutputTensor with the given pointer and shape.
C8_ExtractOutcomes ==
    [][(obj.stage = "extractor" /\ obj.tensor_ptr # NullPtr
          /\ obj'.stage # "extractor")
       => /\ call'.status # StatusOk
             => extracted' = "IsTensor" /\ obj'.stage = "none"
          /\ (call'.status = StatusOk /\ call'.is_tensor # 1)
             => extracted' = "IsTensorCheck" /\ obj'.stage = "none"
          /\ (call'.status = StatusOk /\ call'.is_tensor = 1)
             => /\ extracted' = "Ok"
                /\ obj' = [stage |-> "output",
                           tensor_ptr |-> obj.tensor_ptr,
                           shape |-> obj.shape]]_vars

\* extract returned an OrtOutputTensor for a native value with a shape
C8_Witness ==
    /\ extracted = "Ok"
    /\ obj.stage = "output"
    /\ obj.tensor_ptr \in ValPtrs
    /\ Len(obj.shape) = MaxRank

\* C9: a view conversion whose native GetTensorMutableData call reported a
\* non-success status returns a data-access error kind, which is none of the
\* creation, predicate-check and predicate-false kinds.
C9_DataAccessKind ==
    (converted # "None" /\ call.status # StatusOk)
    => converted \notin {"Ok", "Panic", "Environment", "IsTensor", "IsTensorCheck"}

\* C10: a view conversion whose native GetTensorMutableData call succeeded
\* with a null data pointer returns an error value: no panic, no view.
C10_NullDataIsError ==
    (converted # "None" /\ call.status = StatusOk
       /\ call.output_array_ptr = NullPtr)
    => converted \notin {"Ok", "Panic"} /\ obj.stage # "with"

\* the product of the dimensions of a shape, last dimension first
RECURSIVE DimProduct(_)
DimProduct(shape) ==
    IF Len(shape) = 0 THEN 1
    ELSE shape[Len(shape)] * DimProduct(SubSeq(shape, 1, Len(shape) - 1))

\* C11: the view of a converted tensor aliases the native data pointer; the
\* flat view has as many elements as the product of the shape's dimensions
\* (1 for the empty shape, 0 with a zero dimension) and its element i is the
\* i-th value of the native buffer; the array view has the tensor's shape.
C11_ViewCorrect ==
    obj.stage = "with" =>
        /\ item.data = call.output_array_ptr
        /\ item.kind = "slice" =>
              /\ item.len = DimProduct(obj.shape)
              /\ obj.shape = <<>> => item.len = 1
              /\ (\E k \in 1..Len(obj.shape) : obj.shape[k] = 0) => item.len = 0
              /\ \A i \in 0..(item.len - 1) :
                    ViewElem(item, i) = NativeBuffer(obj.tensor_ptr, i)
        /\ item.kind = "array" => item.shape = obj.shape

\* a flat view over a tensor of full rank with several elements
C11_Witness ==
    /\ obj.stage = "with"
    /\ item.kind = "slice"
    /\ Len(obj.shape) = MaxRank
    /\ item.len = 4

\* C12: dropping an OrtOutputTensor, alone or inside a WithOutputTensor, makes
\* the one and only ReleaseValue call on its pointer and leaves tensor_ptr
\* null; a successful view conversion moves the tensor and releases nothing.
C12_DropReleasesOnce ==
    [][/\ (obj.stage \in {"output", "with"} /\ obj'.stage = "none")
          => /\ valReleased' = [valReleased EXCEPT ![obj.tensor_ptr] = 1]
             /\ obj'.tensor_ptr = NullPtr
       /\ (obj.stage = "output" /\ obj'.stage = "with")
          => /\ valReleased' = valReleased
             /\ obj'.tensor_ptr = obj.tensor_ptr]_vars

\* a validated handle was converted to a view and the wrapper then dropped
C12_Witness ==
    /\ obj.stage = "none"
    /\ extracted = "Ok"
    /\ converted = "Ok"
    /\ call.output_array_ptr \in ValPtrs
    /\ valReleased[call.output_array_ptr] = 1

C15_ReleasedOnce ==
    \A v \in ValPtrs :
        /\ valReleased[v] <= 1
        /\ (v < nextVal /\ obj.tensor_ptr # v) => valReleased[v] = 1

\* C16: GetTensorMutableData is called only on a non-null handle for which
\* IsTensor succeeded with answer 1 and which was not released; extract
\* returns an OrtOutputTensor only for such a handle, and on a null pointer it
\* panics without any native call.
C16_ValidateBeforeRead ==
    [][/\ (converted = "None" /\ converted' # "None")
          => /\ obj.tensor_ptr \in ValPtrs
             /\ extracted = "Ok"
             /\ call.status = StatusOk /\ call.is_tensor = 1
             /\ valReleased[obj.tensor_ptr] = 0
       /\ (obj.stage = "extractor" /\ obj'.stage = "output")
          => /\ obj'.tensor_ptr \in ValPtrs
             /\ call'.status = StatusOk /\ call'.is_tensor = 1
       /\ (obj.stage = "extractor" /\ obj.tensor_ptr = NullPtr
             /\ obj'.stage # "extractor")
          => /\ extracted' = "Panic"
             /\ call' = call
             /\ valReleased' = valReleased]_vars

\* GetTensorMutableData has been called on a validated handle
C16_Witness ==
    /\ extracted = "Ok"
    /\ converted \in {"Ok", "IsTensor"}
    /\ call.is_tensor = 1

\* C14: the name and the log level a build passes to environment creation are
\* the last ones given to with_name and with_log_level on that builder, and
\* "default" and Warning for a method that was never called.
C14_LastValueWins ==
    [][\A t \in Threads :
          LET name == IF configured[t].name = Unset THEN DefaultName
                      ELSE configured[t].name
              level == IF configured[t].log_level = "Unset" THEN "Warning"
                       ELSE configured[t].log_level
          IN /\ (pc[t] = "builder" /\ pc'[t] # "builder")
                => builder[t].name = name /\ builder[t].log_level = level
             /\ (pc[t] = "builder" /\ pc'[t] = "native")
                => local'[t].name = name /\ local'[t].log_level = level]_vars

\* a build passed on a name and a log level that were both configured
C14_Witness ==
    \E t \in Threads : /\ pc[t] = "native"
                       /\ local[t].name = <<65>>
                       /\ local[t].log_level = "Verbose"

\* C17: a clone makes no native call and shares env_ptr and name; dropping a
\* handle while another one of the same build is alive calls no ReleaseEnv,
\* and dropping the last one calls ReleaseEnv once on its env_ptr.
C17_CloneShares ==
    [][\A i \in 1..Len(arcs) :
          /\ (Live(i) /\ arcs'[i].strong > arcs[i].strong)
             => /\ arcs'[i] = [arcs[i] EXCEPT !.strong = @ + 1]
                /\ createCalls' = createCalls
                /\ created' = created
                /\ released' = released
          /\ (arcs[i].strong > 1 /\ arcs'[i].strong < arcs[i].strong)
             => /\ arcs'[i] = [arcs[i] EXCEPT !.strong = @ - 1]
                /\ released' = released
          /\ (arcs[i].strong = 1 /\ arcs'[i].strong = 0)
             => released' = [released EXCEPT ![arcs[i].env_ptr] = @ + 1]]_vars

\* an Environment has been cloned
C17_Witness ==
    \E i \in LiveArcs : arcs[i].strong >= 2 /\ CStrToString(arcs[i].name) = <<65>>

\* a name with an interior NUL byte
HasNul(name) == \E k \in 1..Len(name) : name[k] = 0

====
